---- MODULE Spec2Model ----
(***************************************************************************)
(* The pagination-aware aggregation engine of app/services/               *)
(* treasury_service.py (TreasuryService) and the error mapping of the     *)
(* endpoints of app/routers/economics.py.                                 *)
(*                                                                        *)
(* One behaviour is one call of one strategy.  A step of the paginated    *)
(* strategies is one iteration of the `while has_more` loop: the awaited  *)
(* page request, the fold of every record of the page and the pagination  *)
(* check; the step that ends the loop also formats the output.            *)
(*                                                                        *)
(* Strings are sequences of one-character strings, so that slicing,       *)
(* str.replace, float() and the lexicographic order of str are computed.  *)
(* Numbers are fixed-point: an integer counts thousandths.                *)
(***************************************************************************)
EXTENDS Integers, Sequences, FiniteSets, TLC

\* ---------------------------------------------------------------- bounds

\* Records in one page of a response.
MaxPageLen == 2

\* Records the provider returns to one call, over all its pages.
MaxRecords == 3

\* Largest total-pages value a provider with a finite data set reports.
MaxTotalPages == 3

\* ------------------------------------------------------- JSON and strings

\* JSON null / Python None, and a JSON string.
None == [null |-> TRUE, s |-> <<>>]

Str(s) == [null |-> FALSE, s |-> s]

\* Python truthiness of a str-or-None value: None and "" are falsy.
Truthy(v) == ~v.null /\ v.s # <<>>

\* dict.get(key): None when the key is absent.
Get(item, key) == IF key \in DOMAIN item THEN item[key] ELSE None

\* dict.get(key, default): the default only when the key is absent.
GetDefault(item, key, default) == IF key \in DOMAIN item THEN item[key] ELSE default

Digits == {"0", "1", "2", "3", "4", "5", "6", "7", "8", "9"}

DigitVal(c) ==
    CASE c = "0" -> 0 [] c = "1" -> 1 [] c = "2" -> 2 [] c = "3" -> 3
      [] c = "4" -> 4 [] c = "5" -> 5 [] c = "6" -> 6 [] c = "7" -> 7
      [] c = "8" -> 8 [] c = "9" -> 9

\* Unicode code point of the characters the sample strings are made of.
CodePoint(c) ==
    CASE c \in Digits -> 48 + DigitVal(c)
      [] c = "," -> 44 [] c = "-" -> 45 [] c = "." -> 46 [] c = "/" -> 47
      [] c = "A" -> 65 [] c = "B" -> 66 [] c = "N" -> 78 [] c = "U" -> 85
      [] c = "e" -> 101 [] c = "i" -> 105 [] c = "k" -> 107 [] c = "l" -> 108
      [] c = "n" -> 110 [] c = "o" -> 111 [] c = "t" -> 116 [] c = "w" -> 119

Min(a, b) == IF a < b THEN a ELSE b

\* a[i-1:] < b[i-1:], the two strings being equal before position i.
RECURSIVE StrLessFrom(_, _, _)
StrLessFrom(a, b, i) ==
    IF i > Len(b) THEN FALSE
    ELSE IF i > Len(a) THEN TRUE
    ELSE IF a[i] = b[i] THEN StrLessFrom(a, b, i + 1)
    ELSE CodePoint(a[i]) < CodePoint(b[i])

\* str < str: lexicographic by code point, a proper prefix first.
StrLess(a, b) == StrLessFrom(a, b, 1)

\* s[:n]
Prefix(s, n) == SubSeq(s, 1, Min(n, Len(s)))

\* s.replace(",", "")
StripCommas(s) == SelectSeq(s, LAMBDA c : c # ",")

\* --------------------------------------------------------------- numbers

\* Thousandths in one unit.
Scale == 10 * 10 * 10

RECURSIVE DigitsValue(_)
DigitsValue(s) ==
    IF s = <<>> THEN 0
    ELSE DigitsValue(SubSeq(s, 1, Len(s) - 1)) * 10 + DigitVal(s[Len(s)])

Pow10(n) == CASE n = 0 -> 1 [] n = 1 -> 10 [] n = 2 -> 100 [] OTHER -> 1000

\* float(s) of a str: [ok, v] with v in thousandths, ok = FALSE for ValueError.
\* The decimal literals [-]digits[.digits] with at most three fractional
\* digits are parsed; any other string of the sample alphabet ("N/A",
\* "1,000", "") is a ValueError, as in Python.
FloatOf(s) ==
    LET neg  == s # <<>> /\ s[1] = "-"
        body == IF neg THEN Tail(s) ELSE s
        dots == {i \in 1..Len(body) : body[i] = "."}
        dot  == IF dots = {} THEN Len(body) + 1 ELSE CHOOSE i \in dots : TRUE
        ip   == SubSeq(body, 1, dot - 1)
        fp   == SubSeq(body, dot + 1, Len(body))
        ok   == /\ Cardinality(dots) <= 1
                /\ ip # <<>>
                /\ \A i \in 1..Len(ip) : ip[i] \in Digits
                /\ \A i \in 1..Len(fp) : fp[i] \in Digits
                /\ dots # {} => Len(fp) \in 1..3
        mag  == DigitsValue(ip) * Scale + DigitsValue(fp) * Pow10(3 - Len(fp))
    IN  IF ok THEN [ok |-> TRUE, v |-> IF neg THEN 0 - mag ELSE mag]
        ELSE [ok |-> FALSE, v |-> 0]

\* Hundred-thousandths in one unit: the resolution of the yield-curve rates,
\* one digit below the four decimals the spread is rounded to.
RateScale == Scale * 100

\* A spread returned as computed, without round(..., 4).
Round4Skipped(x) == x

\* round(x, 4) of a value in hundred-thousandths: the nearest ten-thousandth,
\* a tie to the even one.
Round4(x) ==
    LET q == x \div 10
        r == x % 10
    IN  IF r < 5 THEN q * 10
        ELSE IF r > 5 THEN (q + 1) * 10
        ELSE IF q % 2 = 0 THEN q * 10 ELSE (q + 1) * 10

\* float(s) of a rate: [ok, v] with v in hundred-thousandths.  A literal has
\* at most five fractional digits here; its other rules are those of FloatOf.
RateOf(s) ==
    LET neg  == s # <<>> /\ s[1] = "-"
        body == IF neg THEN Tail(s) ELSE s
        dots == {i \in 1..Len(body) : body[i] = "."}
        dot  == IF dots = {} THEN Len(body) + 1 ELSE CHOOSE i \in dots : TRUE
        ip   == SubSeq(body, 1, dot - 1)
        fp   == SubSeq(body, dot + 1, Len(body))
        pad  == [i \in 1..5 |-> IF i <= Len(fp) THEN fp[i] ELSE "0"]
        ok   == /\ Cardinality(dots) <= 1
                /\ ip # <<>>
                /\ \A i \in 1..Len(ip) : ip[i] \in Digits
                /\ \A i \in 1..Len(fp) : fp[i] \in Digits
                /\ dots # {} => Len(fp) \in 1..5
        mag  == DigitsValue(ip) * RateScale + DigitsValue(pad)
    IN  IF ok THEN [ok |-> TRUE, v |-> IF neg THEN 0 - mag ELSE mag]
        ELSE [ok |-> FALSE, v |-> 0]

\* round(x, 2) of a value in thousandths: the nearest hundredth, a tie to the
\* even one.
Round2(x) ==
    LET q == x \div 10
        r == x % 10
    IN  IF r < 5 THEN q * 10
        ELSE IF r > 5 THEN (q + 1) * 10
        ELSE IF q % 2 = 0 THEN q * 10 ELSE (q + 1) * 10

\* ------------------------------------------------------- sample strings

sBill == <<"B", "i", "l", "l">>

sNote == <<"N", "o", "t", "e">>

sUnknown == <<"U", "n", "k", "n", "o", "w", "n">>

sNA == <<"N", "/", "A">>

s30 == <<"3", "0">>

s50 == <<"5", "0">>

s70 == <<"7", "0">>

s100 == <<"1", "0", "0">>

s200 == <<"2", "0", "0">>

s1000 == <<"1", "0", "0", "0">>

s1040 == <<"1", "0", "4", "0">>

s1050 == <<"1", "0", "5", "0">>

sComma1000 == <<"1", ",", "0", "0", "0">>

s5p0 == <<"5", ".", "0">>

s5p5 == <<"5", ".", "5">>

s50p004 == <<"5", "0", ".", "0", "0", "4">>

s1000p004 == <<"1", "0", "0", "0", ".", "0", "0", "4">>

sComma1040p008 == <<"1", ",", "0", "4", "0", ".", "0", "0", "8">>

s2p345 == <<"2", ".", "3", "4", "5">>

s3p1 == <<"3", ".", "1">>

s4p00001 == <<"4", ".", "0", "0", "0", "0", "1">>

s4p00002 == <<"4", ".", "0", "0", "0", "0", "2">>

sMillion == <<"1", ",", "5", "0", "0", ",", "0", "0", "0">>

d0105 == <<"2", "0", "2", "4", "-", "0", "1", "-", "0", "5">>

d0120 == <<"2", "0", "2", "4", "-", "0", "1", "-", "2", "0">>

d0201 == <<"2", "0", "2", "4", "-", "0", "2", "-", "0", "1">>

\* ------------------------------------------------ provider's raw records

\* Rows of /v1/accounting/od/auctions_query as the bond summary reads them.
BondRecords ==
    { [security_type |-> Str(sBill), offering_amount |-> Str(s100), high_yield |-> Str(s5p0)],
      [security_type |-> Str(sBill), offering_amount |-> Str(s200), high_yield |-> Str(s5p5)],
      [offering_amount |-> Str(s100), high_yield |-> Str(s5p0)],
      [security_type |-> None, offering_amount |-> Str(s100), high_yield |-> Str(s5p0)],
      [security_type |-> Str(sBill), offering_amount |-> Str(s100), high_yield |-> Str(sNA)],
      [security_type |-> Str(sNote), offering_amount |-> Str(sComma1000), high_yield |-> Str(s5p0)],
      [security_type |-> Str(sBill), high_yield |-> Str(<<>>)] }

\* Rows of the same endpoint as the issuance trend reads them.
TrendRecords ==
    { [auction_date |-> Str(d0105), offering_amount |-> Str(s50)],
      [auction_date |-> Str(d0120), offering_amount |-> Str(s70)],
      [auction_date |-> Str(d0201), offering_amount |-> Str(s30)],
      [auction_date |-> Str(d0105), offering_amount |-> Str(s50p004)],
      [auction_date |-> Str(d0201), offering_amount |-> Str(sNA)],
      [auction_date |-> None, offering_amount |-> Str(s50)] }

\* Rows of /v1/accounting/dts/dts_table_1.
TgaRecords ==
    { [record_date |-> Str(d0105), close_today_bal |-> Str(sMillion)],
      [record_date |-> Str(d0120), close_today_bal |-> Str(s1000)],
      [record_date |-> Str(d0201), close_today_bal |-> Str(s1000)],
      [record_date |-> Str(d0105), close_today_bal |-> Str(sNA)],
      [close_today_bal |-> Str(s1000)] }

\* Rows of /v2/accounting/od/avg_interest_rates.
CostRecords ==
    { [record_date |-> Str(d0105), avg_interest_rate_amt |-> Str(s3p1)],
      [record_date |-> Str(d0120), avg_interest_rate_amt |-> Str(s2p345)],
      [record_date |-> Str(d0201), avg_interest_rate_amt |-> Str(s3p1)],
      [record_date |-> Str(d0105), avg_interest_rate_amt |-> None],
      [record_date |-> Str(<<>>), avg_interest_rate_amt |-> Str(s3p1)] }

\* Rows of /v2/accounting/od/debt_to_penny.
DebtRecords ==
    { [record_date |-> Str(d0120), tot_pub_debt_out_amt |-> Str(s1050)],
      [record_date |-> Str(d0201), tot_pub_debt_out_amt |-> Str(s1040)],
      [record_date |-> Str(d0105), tot_pub_debt_out_amt |-> Str(s1000p004)],
      [record_date |-> Str(d0120), tot_pub_debt_out_amt |-> Str(sComma1040p008)],
      [record_date |-> Str(d0201), tot_pub_debt_out_amt |-> Str(sNA)],
      [record_date |-> None, tot_pub_debt_out_amt |-> Str(s1000)] }

\* Rows of /v2/accounting/od/daily_treasury_yield_curve.
YieldRecords ==
    { [record_date |-> Str(d0201), BC_1MONTH |-> Str(s5p5), BC_2YEAR |-> Str(s5p0),
       BC_10YEAR |-> Str(s5p5), BC_30YEAR |-> Str(s5p0)],
      [record_date |-> Str(d0201), BC_2YEAR |-> Str(s5p5), BC_10YEAR |-> Str(s5p0)],
      [record_date |-> Str(d0201), BC_2YEAR |-> Str(s4p00002), BC_10YEAR |-> Str(s4p00001)],
      [record_date |-> Str(d0201), BC_2YEAR |-> Str(s5p0), BC_10YEAR |-> Str(sNA)],
      [BC_2YEAR |-> None, BC_10YEAR |-> Str(s5p0)],
      [record_date |-> Str(d0201), BC_3MONTH |-> Str(<<>>), BC_10YEAR |-> Str(s5p0)] }

PagedStrategies == {"bond_issuance_summary", "issuance_trend", "tga_liquidity",
                    "debt_cost_trend", "debt_history"}

SingleStrategies == {"total_debt", "daily_yield_curve", "spread_10_2"}

RecordsOf(s) ==
    CASE s = "bond_issuance_summary" -> BondRecords
      [] s = "issuance_trend" -> TrendRecords
      [] s = "tga_liquidity" -> TgaRecords
      [] s = "debt_cost_trend" -> CostRecords
      [] s = "debt_history" -> DebtRecords
      [] s = "total_debt" -> DebtRecords
      [] OTHER -> YieldRecords

\* The pages of at most n rows, in any order.
PagesUpTo(s, n) == UNION {[1..k -> RecordsOf(s)] : k \in 0..n}

\* The pages a provider may return: up to MaxPageLen rows.
PagesOf(s) == PagesUpTo(s, MaxPageLen)

\* What the provider answers to one request: an error (network failure or a
\* non-success status) or a JSON body {"data": [...], "meta": {"total-pages": n}}
\* whose "meta" may be missing.
BodiesOf(pages, totals) ==
    {[data |-> p] : p \in pages}
        \cup {[data |-> p, meta |-> ("total-pages" :> n)] : p \in pages, n \in totals}

FetchError == [ok |-> FALSE, body |-> [data |-> <<>>]]

ResponsesOf(pages, totals) ==
    {FetchError} \cup {[ok |-> TRUE, body |-> b] : b \in BodiesOf(pages, totals)}

EmptyDict == [k \in {} |-> 0]

\* ----------------------------------------------------------------- state

VARIABLES
    strategy,        \* the service method called
    pc,              \* "fetching" | "returned" | "raised"
    page,            \* page = 1, then page += 1
    has_more,        \* the loop flag
    total_pages,     \* total_pages as last read from a response (-1: not yet)
    agg_data,        \* bond summary: defaultdict, in insertion order
    monthly_totals,  \* issuance trend: defaultdict(float), in insertion order
    liquidity_data,  \* TGA liquidity: list
    rate_data,       \* debt-cost trend: list
    debt_records,    \* debt history: list
    result,          \* the value returned
    exc,             \* the exception raised
    http_status,     \* status of the endpoint's response (0: none yet)
    responses,       \* history: the requests made and what the provider answered
    frames,          \* concurrent calls: the local variables of each invocation
    calls,           \* concurrent calls: method, position, outcome, pages received
    schedule         \* concurrent calls: history of the order the responses arrived in

vars == <<strategy, pc, page, has_more, total_pages, agg_data, monthly_totals,
          liquidity_data, rate_data, debt_records, result, exc, http_status, responses,
          frames, calls, schedule>>

\* The state of one call followed alone, and that of the concurrent calls.
single == <<strategy, pc, page, has_more, total_pages, agg_data, monthly_totals,
            liquidity_data, rate_data, debt_records, result, exc, http_status, responses>>

concurrent == <<frames, calls, schedule>>

accumulators == <<agg_data, monthly_totals, liquidity_data, rate_data, debt_records>>

NoExc == [type |-> "none", msg |-> ""]

HTTPError == [type |-> "HTTPError", msg |-> "request failed"]

\* ------------------------------------------------------ folding a record

\* Index of a key in an insertion-ordered dict, 0 when absent.
KeyIndex(d, key) ==
    IF \E i \in 1..Len(d) : d[i].key = key
    THEN CHOOSE i \in 1..Len(d) : d[i].key = key
    ELSE 0

\* defaultdict.__getitem__: a missing key gets the default entry.
Touch(d, key, default) ==
    IF KeyIndex(d, key) # 0 THEN d ELSE Append(d, [default EXCEPT !.key = key])

NewGroup == [key |-> None, total_amt |-> 0, yield_sum |-> 0, count |-> 0]

\* A bond fold that counts the record before parsing its yield.
BondItemCountFirst(agg, item) ==
    LET sec_type  == GetDefault(item, "security_type", Str(sUnknown))
        amt_str   == Get(item, "offering_amount")
        yield_str == Get(item, "high_yield")
        d1  == Touch(agg, sec_type, NewGroup)
        i   == KeyIndex(d1, sec_type)
        amt == FloatOf(amt_str.s)
        d2  == [d1 EXCEPT ![i].total_amt = @ + amt.v, ![i].count = @ + 1]
        yld == FloatOf(yield_str.s)
        d3  == [d2 EXCEPT ![i].yield_sum = @ + yld.v]
    IN  IF Truthy(amt_str) /\ Truthy(yield_str)
        THEN IF ~amt.ok THEN d1 ELSE IF ~yld.ok THEN d2 ELSE d3
        ELSE agg

\* A bond fold that rounds each yield to a whole number before adding it.
BondItemRoundedYield(agg, item) ==
    LET sec_type  == GetDefault(item, "security_type", Str(sUnknown))
        amt_str   == Get(item, "offering_amount")
        yield_str == Get(item, "high_yield")
        d1  == Touch(agg, sec_type, NewGroup)
        i   == KeyIndex(d1, sec_type)
        amt == FloatOf(amt_str.s)
        d2  == [d1 EXCEPT ![i].total_amt = @ + amt.v]
        yld == FloatOf(yield_str.s)
        d3  == [d2 EXCEPT ![i].yield_sum = @ + Round2(yld.v \div 100) * 100,
                          ![i].count = @ + 1]
    IN  IF Truthy(amt_str) /\ Truthy(yield_str)
        THEN IF ~amt.ok THEN d1 ELSE IF ~yld.ok THEN d2 ELSE d3
        ELSE agg

\* Bond summary, one record.  An augmented assignment evaluates its target
\* agg_data[sec_type] before its right-hand side, and the three statements of
\* the try block run in order until one raises ValueError.
BondItem(agg, item) ==
    LET sec_type  == GetDefault(item, "security_type", Str(sUnknown))
        amt_str   == Get(item, "offering_amount")
        yield_str == Get(item, "high_yield")
        d1  == Touch(agg, sec_type, NewGroup)
        i   == KeyIndex(d1, sec_type)
        amt == FloatOf(amt_str.s)
        d2  == [d1 EXCEPT ![i].total_amt = @ + amt.v]
        yld == FloatOf(yield_str.s)
        d3  == [d2 EXCEPT ![i].yield_sum = @ + yld.v, ![i].count = @ + 1]
    IN  IF Truthy(amt_str) /\ Truthy(yield_str)
        THEN IF ~amt.ok THEN d1 ELSE IF ~yld.ok THEN d2 ELSE d3
        ELSE agg

NewMonth == [key |-> <<>>, total |-> 0]

\* A trend fold keyed by the whole date instead of its first 7 characters.
TrendItemByDay(totals, item) ==
    LET auction_date == Get(item, "auction_date")
        amt_str      == Get(item, "offering_amount")
        amount       == FloatOf(amt_str.s)
        d1 == Touch(totals, auction_date.s, NewMonth)
        i  == KeyIndex(d1, auction_date.s)
    IN  IF Truthy(auction_date) /\ Truthy(amt_str) /\ amount.ok
        THEN [d1 EXCEPT ![i].total = @ + amount.v]
        ELSE totals

\* Issuance trend, one record.
TrendItem(totals, item) ==
    LET auction_date == Get(item, "auction_date")
        amt_str      == Get(item, "offering_amount")
        year_month   == Prefix(auction_date.s, 7)
        amount       == FloatOf(amt_str.s)
        d1 == Touch(totals, year_month, NewMonth)
        i  == KeyIndex(d1, year_month)
    IN  IF Truthy(auction_date) /\ Truthy(amt_str) /\ amount.ok
        THEN [d1 EXCEPT ![i].total = @ + amount.v]
        ELSE totals

Billion == 1000000000

\* round(balance / 1_000_000_000, 2) of a balance in thousandths, in
\* thousandths: the nearest hundredth of balance / 10^9, a tie to the even one.
BalanceBillion(balance) ==
    LET n1 == balance \div 10
        r0 == balance % 10
        q  == n1 \div Billion
        r1 == n1 % Billion
        half == Billion \div 2
        up == \/ r1 > half
              \/ r1 = half /\ r0 > 0
              \/ r1 = half /\ r0 = 0 /\ q % 2 = 1
    IN  (IF up THEN q + 1 ELSE q) * 10

\* TGA liquidity, one record.
TgaItem(points, item) ==
    LET record_date       == Get(item, "record_date")
        close_balance_str == Get(item, "close_today_bal")
        balance           == FloatOf(StripCommas(close_balance_str.s))
    IN  IF Truthy(record_date) /\ Truthy(close_balance_str) /\ balance.ok
        THEN Append(points, [date |-> record_date.s,
                             balance_billion |-> BalanceBillion(balance.v)])
        ELSE points

\* Debt-cost trend, one record.  round(avg_rate, 4) keeps a value that has at
\* most three fractional digits.
CostItem(points, item) ==
    LET record_date  == Get(item, "record_date")
        avg_rate_str == Get(item, "avg_interest_rate_amt")
        avg_rate     == FloatOf(StripCommas(avg_rate_str.s))
    IN  IF Truthy(record_date) /\ Truthy(avg_rate_str) /\ avg_rate.ok
        THEN Append(points, [date |-> record_date.s, avg_rate |-> avg_rate.v])
        ELSE points

\* Debt history, one record.
DebtItem(records, item) ==
    LET record_date == Get(item, "record_date")
        debt_str    == Get(item, "tot_pub_debt_out_amt")
        total_debt  == FloatOf(StripCommas(debt_str.s))
    IN  IF Truthy(record_date) /\ Truthy(debt_str) /\ total_debt.ok
        THEN Append(records, [date |-> record_date.s, total_debt |-> total_debt.v])
        ELSE records

\* for item in results: ... over one page, left to right.
RECURSIVE FoldPage(_, _, _)
FoldPage(s, acc, results) ==
    IF results = <<>> THEN acc
    ELSE LET item == Head(results)
             next == CASE s = "bond_issuance_summary" -> BondItem(acc, item)
                       [] s = "issuance_trend" -> TrendItem(acc, item)
                       [] s = "tga_liquidity" -> TgaItem(acc, item)
                       [] s = "debt_cost_trend" -> CostItem(acc, item)
                       [] s = "debt_history" -> DebtItem(acc, item)
         IN  FoldPage(s, next, Tail(results))

\* --------------------------------------------------------- sort and derive

Front(s) == SubSeq(s, 1, Len(s) - 1)

\* A sort that leaves the list as accumulated.
InsertAtEnd(sorted, x) == Append(sorted, x)

\* A sort that puts a point before the points of its own date.
InsertBeforeEqual(sorted, x) ==
    LET k == Cardinality({i \in 1..Len(sorted) : StrLess(sorted[i].date, x.date)})
    IN  SubSeq(sorted, 1, k) \o <<x>> \o SubSeq(sorted, k + 1, Len(sorted))

\* A sort that keeps one point per date.
InsertUnique(sorted, x) ==
    IF \E i \in 1..Len(sorted) : sorted[i].date = x.date THEN sorted
    ELSE LET k == Cardinality({i \in 1..Len(sorted) : StrLess(sorted[i].date, x.date)})
         IN  SubSeq(sorted, 1, k) \o <<x>> \o SubSeq(sorted, k + 1, Len(sorted))

\* list.sort(key=lambda x: x.date) is stable: a point goes after every point
\* whose date is not greater than its own.
InsertByDate(sorted, x) ==
    LET k == Cardinality({i \in 1..Len(sorted) : ~StrLess(x.date, sorted[i].date)})
    IN  SubSeq(sorted, 1, k) \o <<x>> \o SubSeq(sorted, k + 1, Len(sorted))

RECURSIVE SortByDate(_)
SortByDate(s) ==
    IF s = <<>> THEN <<>> ELSE InsertByDate(SortByDate(Front(s)), s[Len(s)])

\* n / d rounded to the nearest integer, a tie to the even one (d > 0).
RoundDiv(n, d) ==
    LET q == n \div d
        r == n % d
    IN  IF 2 * r < d THEN q
        ELSE IF 2 * r > d THEN q + 1
        ELSE IF q % 2 = 0 THEN q ELSE q + 1

\* BondGroup(...) of one group: average_yield = round(yield_sum / count, 4)
\* is in ten-thousandths, total_issuance = round(total_amt, 2) in thousandths.
BondGroup(stats) ==
    [security_type |-> stats.key.s,
     total_issuance |-> Round2(stats.total_amt),
     average_yield |-> RoundDiv(stats.yield_sum * 10, stats.count),
     auction_count |-> stats.count]

\* An output loop without the count check.
EmittedAlways(stats) == TRUE

\* if stats["count"] > 0:
Emitted(stats) == stats.count > 0

\* 4. Format Output of the bond summary, group by group in insertion order.
\* yield_sum / count raises ZeroDivisionError for a count of 0; security_type:
\* str rejects None, so building the BondGroup of a group keyed by None raises
\* ValidationError.  The first group that raises ends the call.
BondOutput(agg) ==
    LET groups == SelectSeq(agg, Emitted)
        raising == {i \in 1..Len(groups) : groups[i].count = 0 \/ groups[i].key.null}
    IN  IF raising = {}
        THEN [exc |-> NoExc, value |-> [i \in 1..Len(groups) |-> BondGroup(groups[i])]]
        ELSE LET first == CHOOSE i \in raising : \A j \in raising : i <= j
             IN  IF groups[first].count = 0
                 THEN [exc |-> [type |-> "ZeroDivisionError", msg |-> "float division by zero"],
                       value |-> <<>>]
                 ELSE [exc |-> [type |-> "ValidationError", msg |-> "security_type: none is not an allowed value"],
                       value |-> <<>>]

TrendOutput(totals) ==
    [exc |-> NoExc,
     value |-> SortByDate([i \in 1..Len(totals) |->
                  [date |-> totals[i].key, total_issuance |-> Round2(totals[i].total)]])]

SeriesOutput(points) == [exc |-> NoExc, value |-> SortByDate(points)]

\* Daily changes taken in arrival order, before the sort.
DebtPointsDeltaFirst(records) ==
    SortByDate([i \in 1..Len(records) |->
        [date |-> records[i].date,
         total_debt |-> Round2(records[i].total_debt),
         daily_change |-> Round2(IF i = 1 THEN 0
                                 ELSE records[i].total_debt - records[i - 1].total_debt)]])

\* Sort by date, then the daily changes of the sorted records.
DebtPoints(records) ==
    LET sorted == SortByDate(records)
    IN  [i \in 1..Len(sorted) |->
            [date |-> sorted[i].date,
             total_debt |-> Round2(sorted[i].total_debt),
             daily_change |-> Round2(IF i = 1 THEN 0
                                     ELSE sorted[i].total_debt - sorted[i - 1].total_debt)]]

DebtOutput(records) == [exc |-> NoExc, value |-> DebtPoints(records)]

\* The code after the loop.
Output(s, acc) ==
    CASE s = "bond_issuance_summary" -> BondOutput(acc)
      [] s = "issuance_trend" -> TrendOutput(acc)
      [] s = "debt_history" -> DebtOutput(acc)
      [] OTHER -> SeriesOutput(acc)

\* -------------------------------------------------------------- the call

Acc(s) ==
    CASE s = "bond_issuance_summary" -> agg_data
      [] s = "issuance_trend" -> monthly_totals
      [] s = "tga_liquidity" -> liquidity_data
      [] s = "debt_cost_trend" -> rate_data
      [] s = "debt_history" -> debt_records

SetAcc(s, v) ==
    /\ agg_data' = IF s = "bond_issuance_summary" THEN v ELSE agg_data
    /\ monthly_totals' = IF s = "issuance_trend" THEN v ELSE monthly_totals
    /\ liquidity_data' = IF s = "tga_liquidity" THEN v ELSE liquidity_data
    /\ rate_data' = IF s = "debt_cost_trend" THEN v ELSE rate_data
    /\ debt_records' = IF s = "debt_history" THEN v ELSE debt_records

\* The service methods an endpoint of the economics router calls; the bond
\* summary has none.
Routed == {"total_debt", "daily_yield_curve", "issuance_trend", "spread_10_2",
           "tga_liquidity", "debt_cost_trend", "debt_history", "series_data"}

\* An endpoint that catches ValueError only: anything else escapes as a 500.
StatusOfValueErrorOnly(s, e) ==
    IF s \notin Routed THEN 0
    ELSE IF e = NoExc THEN 200
    ELSE IF e.type = "ValueError" THEN 404 ELSE 500

\* The endpoint: the service's value with status 200, or
\* `except Exception as e: raise HTTPException(status_code=404, detail=str(e))`.
\* Without an endpoint there is no response (0).
StatusOf(s, e) == IF s \notin Routed THEN 0 ELSE IF e = NoExc THEN 200 ELSE 404

\* The call ends: it returns out.value, or out.exc propagates to the endpoint.
Finish(out) ==
    /\ pc' = IF out.exc = NoExc THEN "returned" ELSE "raised"
    /\ result' = out.value
    /\ exc' = out.exc
    /\ http_status' = StatusOf(strategy, out.exc)

\* A fetch error swallowed: the call returns an empty result.
OnFetchErrorSwallowed == Finish([exc |-> NoExc, value |-> <<>>])

\* response.raise_for_status() raises, or client.get() does: nothing catches it
\* inside the service.
OnFetchError == Finish([exc |-> HTTPError, value |-> <<>>])

\* A loop that skips a page number.
NextPageSkips(p) == p + 2

\* page += 1
NextPage(p) == p + 1

\* A pagination check that goes one page past the total.
LastPageStrict(p, total) == p > total

\* A pagination check that never ends the loop.
LastPageNever(p, total) == FALSE

\* if page >= total_pages: has_more = False
LastPage(p, total) == p >= total

\* One iteration of `while has_more`, given the provider's answer; next_page is
\* the value page takes when the loop goes on.
Iteration(resp, next_page) ==
    LET data    == resp.body
        results == GetDefault(data, "data", <<>>)
        meta    == GetDefault(data, "meta", EmptyDict)
        total   == GetDefault(meta, "total-pages", 0)
        folded  == FoldPage(strategy, Acc(strategy), results)
    IN  IF ~resp.ok
        THEN /\ OnFetchError
             /\ UNCHANGED <<page, has_more, total_pages, accumulators>>
        ELSE IF results = <<>>
        THEN /\ has_more' = FALSE
             /\ Finish(Output(strategy, Acc(strategy)))
             /\ UNCHANGED <<page, total_pages, accumulators>>
        ELSE /\ SetAcc(strategy, folded)
             /\ total_pages' = total
             /\ IF LastPage(page, total)
                THEN /\ has_more' = FALSE
                     /\ page' = page
                     /\ Finish(Output(strategy, folded))
                ELSE /\ page' = next_page
                     /\ UNCHANGED <<has_more, pc, result, exc, http_status>>

RECURSIVE Concat(_)
Concat(ss) == IF ss = <<>> THEN <<>> ELSE Concat(Front(ss)) \o ss[Len(ss)]

\* Every record received so far, in the order received.
Fetched == Concat([i \in 1..Len(responses) |-> responses[i].resp.body.data])

\* A provider with a finite data set: at most MaxRecords records and at most
\* MaxTotalPages pages reported.
Totals == 0..MaxTotalPages

FetchPage ==
    /\ pc = "fetching"
    /\ strategy \in PagedStrategies
    /\ \E resp \in ResponsesOf(PagesUpTo(strategy, Min(MaxPageLen, MaxRecords - Len(Fetched))),
                               Totals) :
          /\ Iteration(resp, NextPage(page))
          /\ responses' = Append(responses, [page |-> page, resp |-> resp])
    /\ UNCHANGED <<strategy, concurrent>>

\* ------------------------------------------- the single-record strategies

ValueError(msg) == [exc |-> [type |-> "ValueError", msg |-> msg], value |-> <<>>]

\* get_total_debt, after the request succeeded.
TotalDebt(results) ==
    IF results = <<>> THEN ValueError("No debt data found")
    ELSE LET latest_record == results[1]
             amt == Get(latest_record, "tot_pub_debt_out_amt")
             value == FloatOf(amt.s)
             date == Get(latest_record, "record_date")
         IN  IF "tot_pub_debt_out_amt" \notin DOMAIN latest_record
             THEN [exc |-> [type |-> "KeyError", msg |-> "tot_pub_debt_out_amt"], value |-> <<>>]
             ELSE IF amt.null
             THEN [exc |-> [type |-> "TypeError", msg |-> "float() argument"], value |-> <<>>]
             ELSE IF ~value.ok
             THEN ValueError("could not convert string to float")
             ELSE IF "record_date" \notin DOMAIN latest_record
             THEN [exc |-> [type |-> "KeyError", msg |-> "record_date"], value |-> <<>>]
             ELSE IF date.null
             THEN [exc |-> [type |-> "ValidationError", msg |-> "date: none is not an allowed value"],
                   value |-> <<>>]
             ELSE [exc |-> NoExc,
                   value |-> <<[indicator |-> "Total Public Debt Outstanding",
                                value |-> value.v, date |-> date.s]>>]

\* A vocabulary listed in the alphabetical order of its labels.
maturity_mapping_sorted ==
    << <<"BC_1MONTH", "1 Month">>, <<"BC_1YEAR", "1 Year">>, <<"BC_10YEAR", "10 Year">>,
       <<"BC_2YEAR", "2 Year">>, <<"BC_20YEAR", "20 Year">>, <<"BC_3MONTH", "3 Month">>,
       <<"BC_30YEAR", "30 Year">>, <<"BC_5YEAR", "5 Year">> >>

maturity_mapping ==
    << <<"BC_1MONTH", "1 Month">>, <<"BC_3MONTH", "3 Month">>, <<"BC_1YEAR", "1 Year">>,
       <<"BC_2YEAR", "2 Year">>, <<"BC_5YEAR", "5 Year">>, <<"BC_10YEAR", "10 Year">>,
       <<"BC_20YEAR", "20 Year">>, <<"BC_30YEAR", "30 Year">> >>

\* The loop over maturity_mapping: a field that is None or that float()
\* rejects is left out.
RECURSIVE YieldCurve(_, _)
YieldCurve(latest_record, mapping) ==
    IF mapping = <<>> THEN <<>>
    ELSE LET rate_str == Get(latest_record, mapping[1][1])
             rate == RateOf(rate_str.s)
             rest == YieldCurve(latest_record, Tail(mapping))
         IN  IF ~rate_str.null /\ rate.ok
             THEN <<[maturity |-> mapping[1][2], rate |-> rate.v]>> \o rest
             ELSE rest

\* A yield curve without the empty-data check.
DailyYieldCurveNoCheck(results) ==
    [exc |-> NoExc,
     value |-> IF results = <<>> THEN <<>> ELSE YieldCurve(results[1], maturity_mapping)]

\* get_daily_yield_curve, after the request succeeded.
DailyYieldCurve(results) ==
    IF results = <<>> THEN ValueError("No yield curve data found")
    ELSE [exc |-> NoExc, value |-> YieldCurve(results[1], maturity_mapping)]

\* get_10_2_spread, after the request succeeded.
Spread(results) ==
    IF results = <<>> THEN ValueError("No yield curve data found")
    ELSE LET latest_record == results[1]
             record_date  == GetDefault(latest_record, "record_date", Str(sUnknown))
             rate_10y_str == Get(latest_record, "BC_10YEAR")
             rate_2y_str  == Get(latest_record, "BC_2YEAR")
             rate_10y == RateOf(rate_10y_str.s)
             rate_2y  == RateOf(rate_2y_str.s)
             spread_value == rate_10y.v - rate_2y.v
         IN  IF rate_10y_str.null \/ rate_2y_str.null
             THEN ValueError("Missing 10-year or 2-year rate data")
             ELSE IF ~rate_10y.ok \/ ~rate_2y.ok
             THEN ValueError("Invalid rate data")
             ELSE IF record_date.null
             THEN [exc |-> [type |-> "ValidationError", msg |-> "date: none is not an allowed value"],
                   value |-> <<>>]
             ELSE [exc |-> NoExc,
                   value |-> <<[spread_value |-> Round4(spread_value),
                                is_inverted |-> spread_value < 0,
                                date |-> record_date.s]>>]

SingleOutput(s, results) ==
    CASE s = "total_debt" -> TotalDebt(results)
      [] s = "daily_yield_curve" -> DailyYieldCurve(results)
      [] s = "spread_10_2" -> Spread(results)

\* params={"sort": "-record_date", "page[size]": 1}
LatestParams == [sort |-> "-record_date", page_size |-> 1]

\* The latest record: params sort=-record_date, page[size]=1.
LatestOf(s) == {FetchError} \cup {[ok |-> TRUE, body |-> [data |-> p]] :
                                    p \in {q \in PagesOf(s) : Len(q) <= 1}}

\* The one request of a single-record strategy and everything after it.
FetchLatest ==
    /\ pc = "fetching"
    /\ strategy \in SingleStrategies
    /\ \E resp \in LatestOf(strategy) :
          /\ IF ~resp.ok THEN OnFetchError
             ELSE Finish(SingleOutput(strategy, resp.body.data))
          /\ responses' = Append(responses, [page |-> 0, params |-> LatestParams, resp |-> resp])
    /\ UNCHANGED <<strategy, page, has_more, total_pages, accumulators, concurrent>>

\* ------------------------------------------------------ specifications

Init ==
    /\ strategy \in PagedStrategies \cup SingleStrategies
    /\ pc = "fetching"
    /\ page = 1
    /\ has_more = TRUE
    /\ total_pages = -1
    /\ agg_data = <<>>
    /\ monthly_totals = <<>>
    /\ liquidity_data = <<>>
    /\ rate_data = <<>>
    /\ debt_records = <<>>
    /\ result = <<>>
    /\ exc = NoExc
    /\ http_status = 0
    /\ responses = <<>>
    /\ frames = <<>>
    /\ calls = <<>>
    /\ schedule = <<>>

Next == FetchPage \/ FetchLatest

Spec == Init /\ [][Next]_vars

\* ------------------------------------------------- notions of the claims

Paged == strategy \in PagedStrategies

LastResponse == responses[Len(responses)].resp

\* The grouping key the bond summary reads from a record.
GroupKey(item) == GetDefault(item, "security_type", Str(sUnknown))

\* The strings the sample records carry, and float() of each of them, as it
\* is and with its commas removed, computed once.
SampleStrings ==
    {<<>>} \cup UNION {{item[f].s : f \in DOMAIN item} :
                         item \in BondRecords \cup TrendRecords \cup TgaRecords
                                    \cup CostRecords \cup DebtRecords}

Parsed == [s \in SampleStrings |-> FloatOf(s)] @@ <<>>

ParsedStripped == [s \in SampleStrings |-> FloatOf(StripCommas(s))] @@ <<>>

\* A field passed coercion: it is present, non-empty and float() accepts it.
Coerces(v) == Truthy(v) /\ Parsed[v.s].ok

BothCoerce(item) ==
    Coerces(Get(item, "offering_amount")) /\ Coerces(Get(item, "high_yield"))

RECURSIVE SumField(_, _)
SumField(items, field) ==
    IF items = <<>> THEN 0
    ELSE SumField(Tail(items), field) + Parsed[Head(items)[field].s].v

RECURSIVE SumCounts(_)
SumCounts(groups) ==
    IF groups = <<>> THEN 0 ELSE SumCounts(Tail(groups)) + Head(groups).auction_count

\* The fetched records of a group that passed both coercions.
CountedIn(key, fetched) ==
    SelectSeq(fetched, LAMBDA item : GroupKey(item) = key /\ BothCoerce(item))

\* C1: in the bond summary a record whose offering amount or high yield is
\* missing, empty or unparsable is excluded from the running total and from
\* the count: each group's total_amt is the sum of the offering amounts of
\* exactly the records counted in the group, and no parse error surfaces.
C1_TotalOfCountedRecords ==
    strategy = "bond_issuance_summary" =>
        /\ LET fetched == Fetched
           IN  \A i \in 1..Len(agg_data) :
                  LET counted == CountedIn(agg_data[i].key, fetched)
                  IN  /\ agg_data[i].total_amt = SumField(counted, "offering_amount")
                      /\ agg_data[i].count = Len(counted)
        /\ exc.type # "ValueError"

\* C3: without total-pages metadata the loop falls back to empty-page
\* detection: a call whose responses carried no metadata ended on an empty page.
C3_FallbackToEmptyPage ==
    (Paged /\ pc = "returned" /\ \A i \in 1..Len(responses) :
                                    "meta" \notin DOMAIN responses[i].resp.body)
        => LastResponse.body.data = <<>>

\* C4: a failed page fetch fails the whole call at once: the failed request is
\* the last one made (no further page, no retry), the call raises the fetch
\* error and returns nothing, whatever the earlier pages held; an endpoint
\* answers 404.
C4_FetchFailureIsFatal ==
    /\ \A i \in 1..(Len(responses) - 1) : responses[i].resp.ok
    /\ (responses # <<>> /\ ~LastResponse.ok) =>
          /\ pc = "raised"
          /\ exc = HTTPError
          /\ result = <<>>
          /\ (strategy \in Routed => http_status = 404)

C4_Witness ==
    /\ Paged
    /\ Len(responses) = 2
    /\ ~LastResponse.ok
    /\ Acc(strategy) # <<>>
    /\ pc = "raised"

\* C6: the auction counts of the emitted groups add up to the number of
\* fetched records whose offering amount and high yield both passed coercion.
C6_CountsAddUp ==
    (strategy = "bond_issuance_summary" /\ pc = "returned")
        => SumCounts(result) = Len(SelectSeq(Fetched, BothCoerce))

C6_Witness ==
    /\ strategy = "bond_issuance_summary"
    /\ pc = "returned"
    /\ Len(result) = 2
    /\ SumCounts(result) = 2
    /\ Len(Fetched) = 3

\* C7: a record without a security type (absent or null) is grouped under
\* "Unknown": every grouping key is a non-null, non-empty string and such a
\* record never makes the call fail.
C7_GroupKeyIsALabel ==
    strategy = "bond_issuance_summary" =>
        /\ \A i \in 1..Len(agg_data) : ~agg_data[i].key.null /\ agg_data[i].key.s # <<>>
        /\ exc.type # "ValidationError"

Ordered == strategy \in {"issuance_trend", "tga_liquidity", "debt_cost_trend", "debt_history"}

\* C8: the output of every ordered-series strategy is non-decreasing by date
\* string, whatever the order of the pages and of the records in them.
C8_OutputSortedByDate ==
    (Ordered /\ pc = "returned")
        => \A i \in 1..(Len(result) - 1) : ~StrLess(result[i + 1].date, result[i].date)

C8_Witness ==
    /\ strategy = "tga_liquidity"
    /\ pc = "returned"
    /\ Len(result) = 3
    /\ StrLess(liquidity_data[2].date, liquidity_data[1].date)
    /\ Len(responses) = 2

NoDataMessages == {"No debt data found", "No yield curve data found"}

\* The provider answered every request and handed over no record at all.
NoDataAtAll ==
    /\ pc # "fetching"
    /\ \A i \in 1..Len(responses) : responses[i].resp.ok /\ responses[i].resp.body.data = <<>>

\* C5 as claimed: with no data at all, every strategy, paginated or not, ends
\* in the "no data found" condition, which is not the outcome of a fetch failure.
C5_NoDataCondition ==
    NoDataAtAll => (pc = "raised" /\ exc.type = "ValueError" /\ exc.msg \in NoDataMessages)

\* C5 as amended: with no record at all a single-record strategy (total debt,
\* yield curve, spread) raises its "No ... data found" ValueError, which the
\* endpoint reports as 404 like a fetch failure but with another exception and
\* detail, and a paginated strategy returns an empty result, which its endpoint
\* reports with status 200; a failed fetch always ends in the fetch error.
C5_NoDataOutcome ==
    /\ NoDataAtAll =>
          IF Paged
          THEN /\ pc = "returned"
               /\ result = <<>>
               /\ (strategy \in Routed => http_status = 200)
          ELSE /\ pc = "raised"
               /\ exc.type = "ValueError"
               /\ exc.msg \in NoDataMessages
               /\ exc # HTTPError
               /\ http_status = 404
    /\ (responses # <<>> /\ ~LastResponse.ok) => exc = HTTPError

C5_Witness ==
    /\ strategy = "daily_yield_curve"
    /\ NoDataAtAll
    /\ exc.msg = "No yield curve data found"

Abs(x) == IF x < 0 THEN 0 - x ELSE x

DebtReturned == strategy = "debt_history" /\ pc = "returned"

\* C9 as claimed: the first point's daily_change is 0 and every other point's
\* is its total_debt minus the total_debt of the point before it in the output.
C9_DeltaOfOutputValues ==
    DebtReturned =>
        \A i \in 1..Len(result) :
            result[i].daily_change =
                IF i = 1 THEN 0 ELSE result[i].total_debt - result[i - 1].total_debt

\* The debt value a record contributes, as parsed (commas stripped).
DebtValue(item) == ParsedStripped[Get(item, "tot_pub_debt_out_amt").s]

ValidDebt(item) ==
    /\ Truthy(Get(item, "record_date"))
    /\ Truthy(Get(item, "tot_pub_debt_out_amt"))
    /\ DebtValue(item).ok

\* The fetched records a point of the debt history may come from: those with
\* the point's date whose value rounds to the point's total_debt.
\* (values[i] is the parsed value of fetched[i].)
SourcesOf(point, fetched, values) ==
    {i \in 1..Len(fetched) :
        /\ Truthy(Get(fetched[i], "record_date"))
        /\ fetched[i].record_date.s = point.date
        /\ Truthy(Get(fetched[i], "tot_pub_debt_out_amt"))
        /\ values[i].ok
        /\ Round2(values[i].v) = point.total_debt}

RECURSIVE DebtValues(_)
DebtValues(items) ==
    IF items = <<>> THEN <<>>
    ELSE <<DebtValue(Head(items))>> \o DebtValues(Tail(items))

\* C9 as amended: the deltas are taken on the date-sorted sequence of all
\* pages: the output is sorted by date, the first daily_change is 0, and every
\* other one is the difference of the unrounded values of two fetched records,
\* the point's and its predecessor's, rounded to 2 decimals; it is therefore
\* within 0.01 of the difference of the two output total_debt values.
C9_DeltaOfSortedValues ==
    DebtReturned =>
        LET fetched == Fetched
            values == DebtValues(fetched)
        IN  /\ Len(result) = Len(SelectSeq(fetched, ValidDebt))
            /\ \A i \in 1..Len(result) :
                  IF i = 1 THEN result[i].daily_change = 0
                  ELSE /\ ~StrLess(result[i].date, result[i - 1].date)
                       /\ Abs(result[i].daily_change
                                - (result[i].total_debt - result[i - 1].total_debt)) <= 10
                       /\ LET its == SourcesOf(result[i], fetched, values)
                              before == SourcesOf(result[i - 1], fetched, values)
                          IN  \E a \in its, b \in before :
                                  /\ a # b
                                  /\ result[i].daily_change = Round2(values[a].v - values[b].v)

C9_Witness ==
    /\ DebtReturned
    /\ Len(result) = 3
    /\ StrLess(debt_records[3].date, debt_records[1].date)
    /\ result[3].daily_change < 0
    /\ result[2].daily_change > 0

ValidTrend(item) ==
    /\ Truthy(Get(item, "auction_date"))
    /\ Coerces(Get(item, "offering_amount"))

MonthOf(item) == Prefix(item.auction_date.s, 7)

\* The valid fetched records of one year-month.
InMonth(key, fetched) ==
    SelectSeq(fetched, LAMBDA item : ValidTrend(item) /\ MonthOf(item) = key)

MonthsOf(fetched) ==
    {MonthOf(fetched[i]) : i \in {j \in 1..Len(fetched) : ValidTrend(fetched[j])}}

TrendReturned == strategy = "issuance_trend" /\ pc = "returned"

\* One entry per year-month of the valid records, ascending by key.
TrendKeys ==
    /\ {result[i].date : i \in 1..Len(result)} = MonthsOf(Fetched)
    /\ \A i \in 1..(Len(result) - 1) : StrLess(result[i].date, result[i + 1].date)

\* C10 as claimed: one entry per distinct year-month of the valid records,
\* ascending by key, each entry's total the sum of the offering amounts of
\* the valid records of its key.
C10_MonthlySums ==
    TrendReturned =>
        /\ TrendKeys
        /\ LET fetched == Fetched
           IN  \A i \in 1..Len(result) :
                  result[i].total_issuance =
                      SumField(InMonth(result[i].date, fetched), "offering_amount")

\* C10 as amended: the same, each total being that sum rounded to 2 decimals.
C10_MonthlySumsRounded ==
    TrendReturned =>
        /\ TrendKeys
        /\ LET fetched == Fetched
           IN  \A i \in 1..Len(result) :
                  result[i].total_issuance =
                      Round2(SumField(InMonth(result[i].date, fetched), "offering_amount"))

C10_Witness ==
    /\ TrendReturned
    /\ Len(Fetched) = 3
    /\ Len(result) = 2
    /\ result[1].total_issuance = 120 * Scale
    /\ result[2].total_issuance = 30 * Scale

\* ------------------------------------- a provider whose data set never ends

\* Page numbers from PageCap on are kept by their parity, as PageCap or
\* PageCap + 1: the loop reads page only in `page >= total_pages`, and a
\* provider that reports page + 1 answers that comparison the same way at every
\* page from PageCap on.
PageCap == MaxTotalPages + 1

Folded(p) == IF p > PageCap + 1 THEN PageCap ELSE p

\* Pages of rows the strategy skips: the accumulators stay as they are, however
\* long the loop runs.
SkippedPagesOf(s) == {p \in PagesOf(s) : Len(p) <= 1 /\ FoldPage(s, <<>>, p) = <<>>}

\* The answers of a provider that may also report, at every page, one more page
\* than the page requested.
GrowingResponsesOf(s, p) == ResponsesOf(SkippedPagesOf(s), Totals \cup {p + 1})

\* One iteration of the loop against that provider; the history of responses
\* is not kept.
FetchPageGrowing ==
    /\ pc = "fetching"
    /\ \E resp \in GrowingResponsesOf(strategy, page) :
          Iteration(resp, Folded(NextPage(page)))
    /\ UNCHANGED <<strategy, responses, concurrent>>

InitGrowing == Init /\ Paged

NextGrowing == FetchPageGrowing

\* Every awaited request completes, with a response or with an error.
LiveSpec == InitGrowing /\ [][NextGrowing]_vars /\ WF_vars(NextGrowing)

\* C2: for every paginated strategy and every provider behaviour the
\* pagination loop eventually terminates.
C2_LoopTerminates == <>(pc # "fetching")

\* The loop does end on an empty page, on a failed fetch and when
\* page >= total_pages: it ends against every provider whose total-pages
\* values eventually stay within a bound.
LoopTerminatesIfTotalsBounded ==
    (<>[](total_pages <= MaxTotalPages)) => <>(pc # "fetching")

\* ------------------------------------------------------ concurrent calls

\* Two requests in flight on the module-level treasury_service.
Calls == {1, 2}

ConcurrentStrategies == {"bond_issuance_summary", "debt_history"}

\* The rows the provider serves to the concurrent calls, one row a page.
ConcurrentPagesOf(s) ==
    IF s = "bond_issuance_summary"
    THEN {<<>>,
          <<[security_type |-> Str(sBill), offering_amount |-> Str(s100), high_yield |-> Str(s5p0)]>>,
          <<[security_type |-> Str(sBill), offering_amount |-> Str(s200), high_yield |-> Str(s5p5)]>>}
    ELSE {<<>>,
          <<[record_date |-> Str(d0120), tot_pub_debt_out_amt |-> Str(s1050)]>>,
          <<[record_date |-> Str(d0105), tot_pub_debt_out_amt |-> Str(s1000p004)]>>}

ConcurrentTotals == {1, 2}

\* The invocation whose local variables all calls use: one shared set.
FrameOfShared(c) == 1

\* The local variables a call reads and writes: those of its own invocation.
\* The service object holds no accumulator; agg_data, debt_records, page and
\* has_more are locals of the coroutine.
FrameOf(c) == c

\* page = 1; has_more = True; an empty accumulator.
NewFrame == [page |-> 1, has_more |-> TRUE, acc |-> <<>>]

NotCalled == [strategy |-> "none", pc |-> "idle", result |-> <<>>, exc |-> NoExc,
              served |-> <<>>]

\* One iteration of `while has_more` on the local variables f, given the
\* provider's answer: the local variables after it and, when the call ends,
\* its outcome.
CallIteration(s, f, resp) ==
    LET data    == resp.body
        results == GetDefault(data, "data", <<>>)
        meta    == GetDefault(data, "meta", EmptyDict)
        total   == GetDefault(meta, "total-pages", 0)
        folded  == FoldPage(s, f.acc, results)
    IN  IF ~resp.ok
        THEN [frame |-> f, ended |-> TRUE, out |-> [exc |-> HTTPError, value |-> <<>>]]
        ELSE IF results = <<>>
        THEN [frame |-> [f EXCEPT !.has_more = FALSE], ended |-> TRUE,
              out |-> Output(s, f.acc)]
        ELSE IF LastPage(f.page, total)
        THEN [frame |-> [f EXCEPT !.has_more = FALSE, !.acc = folded], ended |-> TRUE,
              out |-> Output(s, folded)]
        ELSE [frame |-> [f EXCEPT !.page = NextPage(f.page), !.acc = folded],
              ended |-> FALSE, out |-> [exc |-> NoExc, value |-> <<>>]]

\* A request arrives at an endpoint: the method runs up to its first await.
Begin(c) ==
    /\ calls[c].pc = "idle"
    /\ \E s \in ConcurrentStrategies :
          calls' = [calls EXCEPT ![c] = [NotCalled EXCEPT !.strategy = s, !.pc = "fetching"]]
    /\ frames' = [frames EXCEPT ![FrameOf(c)] = NewFrame]
    /\ UNCHANGED <<single, schedule>>

\* The awaited response of call c arrives: the call runs up to its next await
\* or to its end.
Receive(c) ==
    /\ calls[c].pc = "fetching"
    /\ \E resp \in ResponsesOf(ConcurrentPagesOf(calls[c].strategy), ConcurrentTotals) :
          LET step == CallIteration(calls[c].strategy, frames[FrameOf(c)], resp)
          IN  /\ frames' = [frames EXCEPT ![FrameOf(c)] = step.frame]
              /\ calls' = [calls EXCEPT
                    ![c].served = Append(@, resp),
                    ![c].pc = IF ~step.ended THEN "fetching"
                              ELSE IF step.out.exc = NoExc THEN "returned" ELSE "raised",
                    ![c].result = step.out.value,
                    ![c].exc = step.out.exc]
    /\ schedule' = Append(schedule, c)
    /\ UNCHANGED single

InitConcurrent ==
    /\ strategy = "none"
    /\ pc = "returned"
    /\ page = 1
    /\ has_more = FALSE
    /\ total_pages = -1
    /\ agg_data = <<>>
    /\ monthly_totals = <<>>
    /\ liquidity_data = <<>>
    /\ rate_data = <<>>
    /\ debt_records = <<>>
    /\ result = <<>>
    /\ exc = NoExc
    /\ http_status = 0
    /\ responses = <<>>
    /\ frames = [c \in Calls |-> NewFrame]
    /\ calls = [c \in Calls |-> NotCalled]
    /\ schedule = <<>>

NextConcurrent == \E c \in Calls : Begin(c) \/ Receive(c)

ConcurrentSpec == InitConcurrent /\ [][NextConcurrent]_vars

\* The outcome of a call that runs alone and receives the responses rs.
RECURSIVE RunAlone(_, _, _)
RunAlone(s, f, rs) ==
    IF rs = <<>> THEN [exc |-> NoExc, value |-> <<>>]
    ELSE LET step == CallIteration(s, f, Head(rs))
         IN  IF step.ended THEN step.out ELSE RunAlone(s, step.frame, Tail(rs))

CallEnded(c) == calls[c].pc \in {"returned", "raised"}

\* C11: concurrent calls have independent accumulator state: in every
\* interleaving of their page fetches, a call that ended has the outcome of a
\* call that ran alone and received the same pages.
C11_CallsAreIndependent ==
    \A c \in Calls :
        CallEnded(c) =>
            [exc |-> calls[c].exc, value |-> calls[c].result]
                = RunAlone(calls[c].strategy, NewFrame, calls[c].served)

C11_Witness ==
    /\ schedule = <<1, 2, 1, 2>>
    /\ calls[1].strategy = "bond_issuance_summary"
    /\ calls[2].strategy = "bond_issuance_summary"
    /\ calls[1].pc = "returned" /\ Len(calls[1].result) = 1
    /\ calls[2].pc = "returned" /\ Len(calls[2].result) = 1
    /\ calls[1].result # calls[2].result

\* ------------------------------------------------ the order of requests

\* C12: within one call pages are requested strictly sequentially from page
\* 1: the i-th request asks for page i (no gap, no repeat), and whenever a
\* request can be made every record of every page received so far has been
\* folded: the accumulator is the fold of all of them, in order.
C12_PagesInSequence ==
    Paged =>
        /\ \A i \in 1..Len(responses) : responses[i].page = i
        /\ pc = "fetching" =>
              /\ page = Len(responses) + 1
              /\ Acc(strategy) = FoldPage(strategy, <<>>, Fetched)

C12_Witness ==
    /\ strategy = "issuance_trend"
    /\ pc = "fetching"
    /\ Len(responses) = 2
    /\ page = 3
    /\ Len(monthly_totals) = 2

\* ------------------------------------------------ coercion of the fields

\* The fields a strategy coerces to numbers, and the date it requires.
NumericFields(s) ==
    CASE s = "bond_issuance_summary" -> {"offering_amount", "high_yield"}
      [] s = "issuance_trend" -> {"offering_amount"}
      [] s = "tga_liquidity" -> {"close_today_bal"}
      [] s = "debt_cost_trend" -> {"avg_interest_rate_amt"}
      [] s = "debt_history" -> {"tot_pub_debt_out_amt"}

DateFields(s) ==
    CASE s = "bond_issuance_summary" -> {}
      [] s = "issuance_trend" -> {"auction_date"}
      [] OTHER -> {"record_date"}

\* A field that is a number once its thousands separators are removed.
CoercesStripped(v) == Truthy(v) /\ ParsedStripped[v.s].ok

\* A record every required field of which is present, its numbers possibly
\* written with commas.
ValidStripped(s, item) ==
    /\ \A f \in DateFields(s) : Truthy(Get(item, f))
    /\ \A f \in NumericFields(s) : CoercesStripped(Get(item, f))

RECURSIVE SumOf(_, _)
SumOf(entries, field) ==
    IF entries = <<>> THEN 0 ELSE SumOf(Tail(entries), field) + Head(entries)[field]

RECURSIVE SumStripped(_, _)
SumStripped(items, field) ==
    IF items = <<>> THEN 0
    ELSE SumStripped(Tail(items), field) + ParsedStripped[Head(items)[field].s].v

\* C13: in every paginated strategy a record whose numeric fields are valid
\* numbers written with commas is folded with its numeric value, not skipped:
\* the records folded are those valid after comma stripping, and the values
\* accumulated are their stripped values.
C13_CommasStripped ==
    Paged =>
        LET valid == SelectSeq(Fetched, LAMBDA item : ValidStripped(strategy, item))
        IN  CASE strategy = "bond_issuance_summary" ->
                    /\ SumOf(agg_data, "count") = Len(valid)
                    /\ SumOf(agg_data, "yield_sum") = SumStripped(valid, "high_yield")
              [] strategy = "issuance_trend" ->
                    SumOf(monthly_totals, "total") = SumStripped(valid, "offering_amount")
              [] OTHER -> Len(Acc(strategy)) = Len(valid)

\* ------------------------------------------------------ the average yield

\* C14: each emitted group's average yield is the sum of the unrounded yields
\* of exactly the records counted in the group, divided by their number and
\* rounded once, at output (to 4 decimals).
C14_AverageOfUnroundedYields ==
    (strategy = "bond_issuance_summary" /\ pc = "returned") =>
        LET fetched == Fetched
        IN  \A i \in 1..Len(result) :
                LET counted == CountedIn(Str(result[i].security_type), fetched)
                IN  /\ counted # <<>>
                    /\ result[i].average_yield
                          = RoundDiv(SumField(counted, "high_yield") * 10, Len(counted))

C14_Witness ==
    /\ strategy = "bond_issuance_summary"
    /\ pc = "returned"
    /\ Len(responses) = 2
    /\ Len(result) = 1
    /\ result[1].auction_count = 2
    /\ result[1].average_yield = 52500

\* ----------------------------------------------------------- the router

sDot == <<".">>

\* The "observations" a FRED response may carry; "." is FRED's missing value.
Observations ==
    { <<>>,
      <<[date |-> Str(d0201), value |-> Str(s3p1)]>>,
      <<[date |-> Str(d0201), value |-> Str(sDot)]>>,
      <<[date |-> Str(d0201)]>>,
      <<[date |-> None, value |-> Str(s3p1)]>> }

SeriesResponses ==
    {[ok |-> FALSE, body |-> [observations |-> <<>>]]}
        \cup {[ok |-> TRUE, body |-> [observations |-> o]] : o \in Observations}

\* FredService.get_series_data, after the request succeeded.
SeriesData(observations) ==
    IF observations = <<>> THEN ValueError("No data found for series")
    ELSE LET latest == observations[1]
             val    == Get(latest, "value")
             value  == FloatOf(val.s)
             date   == Get(latest, "date")
         IN  IF "value" \notin DOMAIN latest
             THEN [exc |-> [type |-> "KeyError", msg |-> "value"], value |-> <<>>]
             ELSE IF val.null
             THEN [exc |-> [type |-> "TypeError", msg |-> "float() argument"], value |-> <<>>]
             ELSE IF ~value.ok
             THEN ValueError("could not convert string to float")
             ELSE IF "date" \notin DOMAIN latest
             THEN [exc |-> [type |-> "KeyError", msg |-> "date"], value |-> <<>>]
             ELSE IF date.null
             THEN [exc |-> [type |-> "ValidationError", msg |-> "date: none is not an allowed value"],
                   value |-> <<>>]
             ELSE [exc |-> NoExc,
                   value |-> <<[indicator |-> "series", value |-> value.v, date |-> date.s]>>]

\* get_series_data: without settings.FRED_API_KEY it raises before any
\* request; otherwise one request and everything after it.
FetchSeries ==
    /\ pc = "fetching"
    /\ strategy = "series_data"
    /\ \E key_set \in BOOLEAN :
          IF ~key_set
          THEN /\ Finish(ValueError("FRED_API_KEY not set"))
               /\ UNCHANGED responses
          ELSE \E resp \in SeriesResponses :
                  /\ IF ~resp.ok THEN OnFetchError
                     ELSE Finish(SeriesData(resp.body.observations))
                  /\ responses' = Append(responses, [page |-> 0, resp |-> resp])
    /\ UNCHANGED <<strategy, page, has_more, total_pages, accumulators, concurrent>>

\* A request to any endpoint of the economics router that calls the Treasury
\* or the FRED service.
InitRouter ==
    /\ strategy \in Routed
    /\ pc = "fetching"
    /\ page = 1
    /\ has_more = TRUE
    /\ total_pages = -1
    /\ agg_data = <<>>
    /\ monthly_totals = <<>>
    /\ liquidity_data = <<>>
    /\ rate_data = <<>>
    /\ debt_records = <<>>
    /\ result = <<>>
    /\ exc = NoExc
    /\ http_status = 0
    /\ responses = <<>>
    /\ frames = <<>>
    /\ calls = <<>>
    /\ schedule = <<>>

NextRouter == FetchPage \/ FetchLatest \/ FetchSeries

RouterSpec == InitRouter /\ [][NextRouter]_vars

\* C15: every failure raised inside a service call surfaces from the endpoint
\* as a 404 that carries the error; no exception escapes, so the status of an
\* endpoint's response is 200 (the call returned) or 404 (the call raised).
C15_StatusIs200Or404 ==
    IF pc = "fetching" THEN http_status = 0
    ELSE /\ http_status \in {200, 404}
         /\ http_status = 404 <=> pc = "raised"
         /\ pc = "raised" <=> exc # NoExc
         /\ exc # NoExc => exc.msg # ""

C15_Witness ==
    /\ strategy = "series_data"
    /\ pc = "raised"
    /\ exc.msg = "FRED_API_KEY not set"
    /\ http_status = 404
    /\ responses = <<>>

\* ------------------------------------------------ page number and total

\* The total-pages value a response carries, 0 without metadata.
TotalIn(resp) == GetDefault(GetDefault(resp.body, "meta", EmptyDict), "total-pages", 0)

CarriesTotal(resp) ==
    "meta" \in DOMAIN resp.body /\ "total-pages" \in DOMAIN resp.body.meta

\* The response ended the loop by itself: an empty page, or the last page by
\* its own total.
EndsLoop(i) ==
    /\ responses[i].resp.ok
    /\ \/ responses[i].resp.body.data = <<>>
       \/ responses[i].page >= TotalIn(responses[i].resp)

\* C16 as claimed: once a total-pages value has been read from a response the
\* current page number never exceeds it, and fetching stops when the page
\* number equals total_pages or the page is empty.
C16_PageWithinTotal ==
    (Paged /\ responses # <<>> /\ LastResponse.ok) =>
        /\ (LastResponse.body.data # <<>> /\ CarriesTotal(LastResponse))
              => page <= total_pages
        /\ EndsLoop(Len(responses)) => pc # "fetching"

\* C16 as amended: a page is requested only while it is within the total read
\* from the response before it, so the page about to be requested never
\* exceeds the total_pages value last read; the total read from a page's own
\* response may be below that page's number (a total of 0, a total that
\* shrinks), and then fetching stops, as it does when the page number equals
\* total_pages or the page is empty.
C16_RequestWithinKnownTotal ==
    Paged =>
        /\ \A i \in 2..Len(responses) : responses[i].page <= TotalIn(responses[i - 1].resp)
        /\ (pc = "fetching" /\ responses # <<>>) => page <= total_pages
        /\ \A i \in 1..Len(responses) : EndsLoop(i) => (i = Len(responses) /\ pc # "fetching")
        /\ (pc # "fetching" /\ total_pages # -1 /\ LastResponse.ok /\ LastResponse.body.data # <<>>)
              => page >= total_pages

C16_Witness ==
    /\ Paged
    /\ pc = "returned"
    /\ Len(responses) = 2
    /\ CarriesTotal(responses[1].resp)
    /\ TotalIn(responses[1].resp) = 3
    /\ LastResponse.body.data # <<>>
    /\ CarriesTotal(LastResponse)
    /\ total_pages = 1
    /\ page = 2

\* ------------------------------------------------- groups without a count

\* The groups of the accumulator that counted at least one record.
CountedGroups(agg) == {i \in 1..Len(agg) : agg[i].count > 0}

\* C17: the bond summary emits a group if and only if its count is greater
\* than 0 at the end of the loop, in the order of the accumulator, and the
\* call never ends in a division by zero, whatever pages were folded, groups
\* created without a count included.
C17_EmittedIffCounted ==
    (strategy = "bond_issuance_summary" /\ pc # "fetching") =>
        /\ exc.type # "ZeroDivisionError"
        /\ pc = "returned" =>
              /\ Len(result) = Cardinality(CountedGroups(agg_data))
              /\ \A i \in 1..Len(agg_data) :
                    agg_data[i].count > 0
                       <=> \E j \in 1..Len(result) :
                              /\ result[j].security_type = agg_data[i].key.s
                              /\ result[j].auction_count = agg_data[i].count
              /\ \A j \in 1..Len(result) : result[j].auction_count > 0

C17_Witness ==
    /\ strategy = "bond_issuance_summary"
    /\ pc = "returned"
    /\ Len(agg_data) = 2
    /\ agg_data[1].count = 0
    /\ agg_data[2].count = 1
    /\ Len(result) = 1
    /\ result[1].security_type = agg_data[2].key.s

\* ----------------------------------------------------- pages of skipped rows

\* A record that is skipped: a required field is missing or empty, or a
\* numeric field is not a number even with its commas removed.
Skipped(s, item) == ~ValidStripped(s, item)

\* Response i is a page with records, all of them skipped.
AllSkipped(i) ==
    /\ responses[i].resp.ok
    /\ responses[i].resp.body.data # <<>>
    /\ \A k \in 1..Len(responses[i].resp.body.data) :
          Skipped(strategy, responses[i].resp.body.data[k])

\* The accumulator as folded from the pages before page i.
AccBefore(i) ==
    FoldPage(strategy, <<>>, Concat([j \in 1..(i - 1) |-> responses[j].resp.body.data]))

\* C18: a non-empty page every record of which is skipped contributes nothing
\* to the accumulator, raises no error, and does not by itself end
\* pagination: below the total it reports, the next page is requested.
C18_SkippedPageContributesNothing ==
    (Paged /\ responses # <<>> /\ AllSkipped(Len(responses))) =>
        LET n == Len(responses)
            before == AccBefore(n)
        IN  /\ Acc(strategy) = before
            /\ pc = "raised" => Output(strategy, before).exc = exc
            /\ responses[n].page < TotalIn(LastResponse)
                  => (pc = "fetching" /\ page = responses[n].page + 1)

\* The part of C18 the five strategies share: no error of the page's own, and
\* the loop goes on below the reported total.
SkippedPageGoesOn ==
    (Paged /\ responses # <<>> /\ AllSkipped(Len(responses))) =>
        LET n == Len(responses)
        IN  /\ pc = "raised" => Output(strategy, AccBefore(n)).exc = exc
            /\ responses[n].page < TotalIn(LastResponse)
                  => (pc = "fetching" /\ page = responses[n].page + 1)
            /\ strategy # "bond_issuance_summary"
                  => Acc(strategy) = AccBefore(n)

\* ------------------------------------------------- the two exit conditions

\* Page i came back non-empty and below the total of its own metadata.
MorePagesAfter(i) ==
    /\ responses[i].resp.ok
    /\ responses[i].resp.body.data # <<>>
    /\ responses[i].page < TotalIn(responses[i].resp)

\* Every response so far is a non-empty page reporting the same total t.
ConsistentProvider(t) ==
    \A i \in 1..Len(responses) :
        /\ responses[i].resp.ok
        /\ responses[i].resp.body.data # <<>>
        /\ CarriesTotal(responses[i].resp)
        /\ TotalIn(responses[i].resp) = t

\* C19: after page N has been fetched, page N+1 is requested if and only if
\* page N was non-empty and N is below the total-pages value of page N's own
\* metadata (0 when absent).  So a consistent provider reporting T >= 1 with
\* non-empty pages 1..T is asked for exactly the pages 1..T, and an empty
\* page ends the loop whatever its metadata says.
C19_TwoExitConditions ==
    (Paged /\ responses # <<>>) =>
        LET n == Len(responses)
        IN  /\ \A i \in 1..(n - 1) : MorePagesAfter(i)
            /\ LastResponse.ok => (pc = "fetching" <=> MorePagesAfter(n))
            /\ pc = "fetching" => page = responses[n].page + 1
            /\ LET t == TotalIn(responses[1].resp)
               IN  (t >= 1 /\ ConsistentProvider(t)) =>
                      /\ n <= t
                      /\ \A i \in 1..n : responses[i].page = i
                      /\ pc # "fetching" => n = t
            /\ (LastResponse.ok /\ LastResponse.body.data = <<>>) => pc # "fetching"

C19_Witness ==
    /\ Paged
    /\ pc = "returned"
    /\ Len(responses) = 2
    /\ ConsistentProvider(2)
    /\ page = 2

\* ------------------------------------------------------ the flat series

Flat == strategy \in {"tga_liquidity", "debt_cost_trend", "debt_history"}

\* The output point a valid record becomes: its date and its converted value.
Converted(s, item) ==
    CASE s = "tga_liquidity" ->
            [date |-> item.record_date.s,
             value |-> BalanceBillion(ParsedStripped[item.close_today_bal.s].v)]
      [] s = "debt_cost_trend" ->
            [date |-> item.record_date.s,
             value |-> ParsedStripped[item.avg_interest_rate_amt.s].v]
      [] s = "debt_history" ->
            [date |-> item.record_date.s,
             value |-> Round2(ParsedStripped[item.tot_pub_debt_out_amt.s].v)]

\* The date and the primary value of an output point.
PointOf(s, point) ==
    CASE s = "tga_liquidity" -> [date |-> point.date, value |-> point.balance_billion]
      [] s = "debt_cost_trend" -> [date |-> point.date, value |-> point.avg_rate]
      [] s = "debt_history" -> [date |-> point.date, value |-> point.total_debt]

Occurrences(seq, x) == Cardinality({i \in 1..Len(seq) : seq[i] = x})

\* C20: in the flat-series strategies every valid record becomes exactly one
\* output point and a skipped record leaves the sequence as it was: the
\* sequence accumulated by the end of the loop has one element per valid
\* record fetched, and the output is a permutation of the converted valid records of all the pages,
\* records of the same date neither merged nor dropped.
C20_OnePointPerValidRecord ==
    (Flat /\ pc # "fetching") =>
        LET valid == SelectSeq(Fetched, LAMBDA item : ValidStripped(strategy, item))
            converted == [i \in 1..Len(valid) |-> Converted(strategy, valid[i])]
        IN  /\ Len(Acc(strategy)) = Len(valid)
            /\ pc = "returned" =>
                  LET points == [i \in 1..Len(result) |-> PointOf(strategy, result[i])]
                  IN  /\ Len(points) = Len(valid)
                      /\ \A i \in 1..Len(converted) :
                            Occurrences(points, converted[i])
                               = Occurrences(converted, converted[i])
                      /\ \A i \in 1..Len(points) :
                            Occurrences(points, points[i])
                               = Occurrences(converted, points[i])

C20_Witness ==
    /\ Flat
    /\ pc = "returned"
    /\ Len(responses) = 2
    /\ Len(Fetched) = 3
    /\ Len(result) = 2
    /\ result[1].date = result[2].date

\* ------------------------------------------------------- the yield curve

Latest == strategy \in {"daily_yield_curve", "spread_10_2"}

\* The maturities in the order of the vocabulary, each with its field.
Maturities ==
    <<[label |-> "1 Month", field |-> "BC_1MONTH"], [label |-> "3 Month", field |-> "BC_3MONTH"],
      [label |-> "1 Year", field |-> "BC_1YEAR"], [label |-> "2 Year", field |-> "BC_2YEAR"],
      [label |-> "5 Year", field |-> "BC_5YEAR"], [label |-> "10 Year", field |-> "BC_10YEAR"],
      [label |-> "20 Year", field |-> "BC_20YEAR"], [label |-> "30 Year", field |-> "BC_30YEAR"]>>

\* The field of the record is present and a number.
Parsable(record, field) ==
    /\ field \in DOMAIN record
    /\ ~record[field].null
    /\ RateOf(record[field].s).ok

\* The record a call of a single-record strategy has read.
LatestRecord == responses[1].resp.body.data[1]

\* C21: the yield curve and the spread make one request per call, for one
\* record in descending date order, and never a second one; the yield curve
\* returned has at most one point per maturity, in the order 1 Month, 3 Month,
\* 1 Year, 2 Year, 5 Year, 10 Year, 20 Year, 30 Year, with a point for exactly
\* the maturities whose field of the latest record is present and parsable.
C21_OneFetchFixedOrder ==
    Latest =>
        /\ Len(responses) <= 1
        /\ pc = "fetching" <=> responses = <<>>
        /\ page = 1
        /\ \A i \in 1..Len(responses) :
              responses[i].params = [sort |-> "-record_date", page_size |-> 1]
        /\ (strategy = "daily_yield_curve" /\ pc = "returned") =>
              LET positions == [i \in 1..Len(result) |->
                                  {k \in 1..Len(Maturities) :
                                      Maturities[k].label = result[i].maturity}]
              IN  /\ \A i \in 1..Len(result) : Cardinality(positions[i]) = 1
                  /\ \A i \in 1..(Len(result) - 1) :
                        \A a \in positions[i], b \in positions[i + 1] : a < b
                  /\ \A k \in 1..Len(Maturities) :
                        Parsable(LatestRecord, Maturities[k].field)
                           <=> \E i \in 1..Len(result) :
                                  /\ result[i].maturity = Maturities[k].label
                                  /\ result[i].rate
                                        = RateOf(LatestRecord[Maturities[k].field].s).v

C21_Witness ==
    /\ strategy = "daily_yield_curve"
    /\ pc = "returned"
    /\ Len(responses) = 1
    /\ Len(result) = 4
    /\ result[1].maturity = "1 Month"
    /\ result[2].maturity = "2 Year"
    /\ result[3].maturity = "10 Year"
    /\ result[4].maturity = "30 Year"

\* ------------------------------------------------------------ the spread

\* A call of the spread whose one request was answered.
SpreadAnswered ==
    /\ strategy = "spread_10_2"
    /\ pc # "fetching"
    /\ responses[1].resp.ok

NoRecord == responses[1].resp.body.data = <<>>

BothRatesParsable ==
    Parsable(LatestRecord, "BC_10YEAR") /\ Parsable(LatestRecord, "BC_2YEAR")

\* 10-year rate minus 2-year rate of the latest record.
RateDifference ==
    RateOf(LatestRecord.BC_10YEAR.s).v - RateOf(LatestRecord.BC_2YEAR.s).v

\* The spread fails where C22 says it does: on an empty record list with the
\* no-data error, and on a rate that is missing or not a number with an
\* error, never with a default.
SpreadFails ==
    /\ NoRecord =>
          /\ pc = "raised"
          /\ exc = [type |-> "ValueError", msg |-> "No yield curve data found"]
    /\ (~NoRecord /\ ~BothRatesParsable) =>
          /\ pc = "raised"
          /\ exc.type = "ValueError"
          /\ result = <<>>
    /\ pc = "returned" => (~NoRecord /\ BothRatesParsable /\ Len(result) = 1)

\* C22 as claimed: the spread returned is the 10-year rate minus the 2-year
\* rate, is_inverted is true exactly when the 10-year rate is below the 2-year
\* rate, a missing or unparsable rate fails the call, and so does an empty
\* record list, with the no-data error.
C22_SpreadIsDifference ==
    SpreadAnswered =>
        /\ SpreadFails
        /\ pc = "returned" =>
              /\ result[1].spread_value = RateDifference
              /\ result[1].is_inverted <=> RateDifference < 0

\* C22 as amended: the spread returned is the 10-year rate minus the 2-year
\* rate rounded to 4 decimals, so a difference below 0.00005 in size is
\* returned as 0; is_inverted is true exactly when the 10-year rate is below
\* the 2-year rate, also when the rounded spread is 0; the failures are as
\* claimed.
C22_SpreadIsRoundedDifference ==
    SpreadAnswered =>
        /\ SpreadFails
        /\ pc = "returned" =>
              /\ LET q == RateDifference \div 10
                     r == RateDifference % 10
                 IN  result[1].spread_value \in
                        {v \in {q * 10, (q + 1) * 10} :
                            /\ 2 * (v - RateDifference) <= 10
                            /\ 2 * (RateDifference - v) <= 10
                            /\ (r = 5) => (v \div 10) % 2 = 0}
              /\ result[1].is_inverted <=> RateDifference < 0

C22_Witness ==
    /\ SpreadAnswered
    /\ pc = "returned"
    /\ RateDifference = -1
    /\ result[1].spread_value = 0
    /\ result[1].is_inverted

\* ------------------------------------------------- points of the same date

\* The elements of a sequence of points that carry the date d, in their order.
OfDate(points, d) == SelectSeq(points, LAMBDA point : point.date = d)

\* C23: the final sort of the flat series is stable: the points of one date
\* appear in the output in the order in which their records were fetched
\* (page by page, and within a page by position), and in the debt history the
\* daily change of the later of two points of one date is its value minus the
\* value of the one fetched just before it among the points of that date.
C23_SortIsStable ==
    (Flat /\ pc = "returned") =>
        LET valid == SelectSeq(Fetched, LAMBDA item : ValidStripped(strategy, item))
            converted == [i \in 1..Len(valid) |-> Converted(strategy, valid[i])]
            points == [i \in 1..Len(result) |-> PointOf(strategy, result[i])]
        IN  /\ \A d \in {converted[i].date : i \in 1..Len(converted)} :
                  OfDate(points, d) = OfDate(converted, d)
            /\ strategy = "debt_history" =>
                  \A i \in 2..Len(result) :
                      result[i].date = result[i - 1].date =>
                          LET same == SelectSeq(valid, LAMBDA item :
                                          item.record_date.s = result[i].date)
                              k == Cardinality({j \in 1..i : result[j].date = result[i].date})
                          IN  result[i].daily_change
                                 = Round2(DebtValue(same[k]).v - DebtValue(same[k - 1]).v)

C23_Witness ==
    /\ DebtReturned
    /\ Len(result) = 2
    /\ result[1].date = result[2].date
    /\ result[1].total_debt = 1050000
    /\ result[2].total_debt = 1040010
    /\ result[2].daily_change = -9990

====
